---- MODULE Spec2Model ----
(***************************************************************************)
(* Model of packages/graphqlgen/src/generators/typescript/generator.ts:    *)
(* the schema-to-declaration generator (generate) and the text formatter   *)
(* wrapper (format).  The generated text is modelled by its structure: a   *)
(* header, a sequence of namespaces (declaration groups), each a sequence  *)
(* of declarations in emission order, and the final Resolvers interface.   *)
(***************************************************************************)
EXTENDS Integers, Sequences, FiniteSets, TLC

VARIABLES args, pc, code, formatter, result, log, raised

vars == <<args, pc, code, formatter, result, log, raised>>

(***************************************************************************)
(* Bounds of the explored schemas.                                         *)
(***************************************************************************)
MaxFields == 2

MaxArgs == 2

MaxInterfaces == 1

MaxUnions == 2

(***************************************************************************)
(* Generic helpers standing for Array.prototype.map / filter / concat.     *)
(***************************************************************************)
Range(s) == {s[i] : i \in 1..Len(s)}

SeqsUpTo(S, n) == UNION {[1..k -> S] : k \in 0..n}

RECURSIVE Flatten(_)
Flatten(ss) == IF ss = <<>> THEN <<>> ELSE Head(ss) \o Flatten(Tail(ss))

(***************************************************************************)
(* The schema graph handed to generate (GenerateArgs).  A GraphQLType      *)
(* carries its name and its kind flag (isObject, isInput, ...), modelled   *)
(* as one kind tag; a type reference adds isArray / isRequired.            *)
(***************************************************************************)
TypeRef(name, kind, isArray, isRequired) ==
  [name |-> name, kind |-> kind, isArray |-> isArray, isRequired |-> isRequired]

isObject(t) == t.kind = "object"

isInput(t) == t.kind = "input"

isInterface(t) == t.kind = "interface"

isEnum(t) == t.kind = "enum"

isScalar(t) == t.kind = "scalar"

ObjNames == <<"User", "Post">>

SubscriptionName == "Subscription"

InterfaceNames == <<"Node", "Entity">>

UnionNames == <<"SearchResult", "Feed", "Media">>

FieldNames == <<"id", "posts", "Id", "node">>

ArgNames == <<"first", "data", "where", "extra">>

FieldTypes ==
  << TypeRef("ID", "scalar", FALSE, TRUE),
     TypeRef("Post", "object", TRUE, TRUE),
     TypeRef("Role", "enum", FALSE, FALSE),
     TypeRef("Node", "interface", FALSE, FALSE) >>

ArgTypes ==
  << TypeRef("Int", "scalar", FALSE, FALSE),
     TypeRef("UserInput", "input", FALSE, TRUE),
     TypeRef("AddressInput", "input", FALSE, FALSE) >>

\* Argument lists: up to MaxArgs arguments, each of one of ArgTypes.
ArgLists ==
  { [i \in 1..Len(ks) |-> [name |-> ArgNames[i], type |-> ArgTypes[ks[i]]]] :
      ks \in {s \in SeqsUpTo(1..Len(ArgTypes), MaxArgs) :
                \A i \in 1..Len(s) - 1 : s[i] <= s[i + 1]} }

\* Field lists: up to MaxFields fields, each with one of the argument lists.
FieldLists ==
  { [i \in 1..Len(as) |->
       [name |-> FieldNames[i], type |-> FieldTypes[i], arguments |-> as[i]]] :
      as \in SeqsUpTo(ArgLists, MaxFields) }

DefaultFields ==
  << [name |-> "id", type |-> FieldTypes[1], arguments |-> <<>>],
     [name |-> "posts", type |-> FieldTypes[2],
      arguments |-> <<[name |-> "first", type |-> ArgTypes[1]]>>] >>

ObjectType(name, fields, implements) ==
  [name |-> name, type |-> TypeRef(name, "object", FALSE, FALSE),
   fields |-> fields, implements |-> implements]

\* Input types and one enum are part of args.types in every schema; the
\* input type UserInput nests AddressInput.
InputTypes ==
  << [name |-> "UserInput", type |-> TypeRef("UserInput", "input", FALSE, FALSE),
      fields |-> << [name |-> "name",
                     type |-> TypeRef("String", "scalar", FALSE, TRUE),
                     arguments |-> <<>>],
                    [name |-> "address",
                     type |-> TypeRef("AddressInput", "input", FALSE, FALSE),
                     arguments |-> <<>>] >>,
      implements |-> <<>>],
     [name |-> "AddressInput",
      type |-> TypeRef("AddressInput", "input", FALSE, FALSE),
      fields |-> << [name |-> "street",
                     type |-> TypeRef("String", "scalar", FALSE, FALSE),
                     arguments |-> <<>>] >>,
      implements |-> <<>>],
     [name |-> "Role", type |-> TypeRef("Role", "enum", FALSE, FALSE),
      fields |-> <<>>, implements |-> <<>>] >>

\* The implementors of an interface, as the schema parser hands them over:
\* the object types that name the interface in their implements list.
Implementors(objs, iname) ==
  LET keep(o) == iname \in Range(o.implements)
      sel == SelectSeq(objs, keep)
  IN [i \in 1..Len(sel) |-> sel[i].type]

InterfaceType(name, fields, objs) ==
  [name |-> name, kind |-> "interface",
   type |-> TypeRef(name, "interface", FALSE, FALSE),
   fields |-> fields, implementors |-> Implementors(objs, name)]

UnionType(name, members) ==
  [name |-> name, kind |-> "union",
   type |-> TypeRef(name, "union", FALSE, FALSE),
   types |-> [i \in 1..Len(members) |-> TypeRef(members[i], "object", FALSE, FALSE)]]

ModelMapOf(bound) == [n \in bound |-> n \o "Model"]

GenerateArgs(types, interfaces, unions, bound, dflt, ctx) ==
  [types |-> types, interfaces |-> interfaces, unions |-> unions,
   modelMap |-> ModelMapOf(bound), defaultResolversEnabled |-> dflt,
   context |-> ctx]

\* Schemas that vary the fields and arguments of one type: an object type
\* (possibly the subscription root) or an interface without implementors.
FieldSchemas ==
  { GenerateArgs(<<ObjectType(n, fs, <<>>), ObjectType("Post", DefaultFields, <<>>)>>
                   \o InputTypes,
                 <<>>, <<>>, {"Post"}, dflt, "") :
      n \in {"User", SubscriptionName}, fs \in FieldLists, dflt \in BOOLEAN }
  \cup
  { GenerateArgs(<<ObjectType("User", DefaultFields, <<>>)>> \o InputTypes,
                 <<InterfaceType("Node", fs, <<>>)>>, <<>>, {"User"}, FALSE, "Context") :
      fs \in FieldLists }

\* Sequences without repetition over the object names.
MemberLists ==
  { s \in SeqsUpTo(Range(ObjNames), Len(ObjNames)) :
      \A i, j \in 1..Len(s) : i # j => s[i] # s[j] }

\* Schemas that vary the interfaces, their implementors, the unions, their
\* members and the model bindings.
PolymorphicSchemas ==
  { LET inames == SubSeq(InterfaceNames, 1, ni)
        objs == [i \in 1..Len(ObjNames) |->
                   ObjectType(ObjNames[i], DefaultFields,
                              SelectSeq(inames, LAMBDA x : x \in impl[i]))]
    IN GenerateArgs(objs \o InputTypes,
                    [i \in 1..ni |-> InterfaceType(inames[i], DefaultFields, objs)],
                    [i \in 1..Len(ms) |-> UnionType(UnionNames[i], ms[i])],
                    bound, FALSE, "Context") :
      ni \in 0..MaxInterfaces,
      impl \in [1..Len(ObjNames) -> SUBSET Range(InterfaceNames)],
      ms \in SeqsUpTo(MemberLists, MaxUnions),
      bound \in SUBSET Range(ObjNames) }

Schemas == FieldSchemas \cup PolymorphicSchemas

(***************************************************************************)
(* Helpers imported from ../common and ../../utils.                        *)
(***************************************************************************)
upperFirst(s) ==
  CASE s = "id" -> "Id"
    [] s = "posts" -> "Posts"
    [] s = "node" -> "Node"
    [] OTHER -> s

DefaultEmptyType == "unknown"

getModelName(type, modelMap, emptyType) ==
  IF isEnum(type) THEN type.name
  ELSE IF type.name \in DOMAIN modelMap THEN modelMap[type.name]
  ELSE emptyType

getContextName(context) == IF context = "" THEN "any" ELSE context

union(types) == [union |-> types]

resolverReturnType(returnType) == [type |-> returnType, orPromise |-> TRUE]

scalarTypeName(name) ==
  CASE name = "Int" -> "number"
    [] name = "Float" -> "number"
    [] name = "Boolean" -> "boolean"
    [] OTHER -> "string"

printFieldLikeType(field, modelMap, isReturn) ==
  LET t == field.type
      base == IF isScalar(t) THEN scalarTypeName(t.name)
              ELSE IF isInput(t) \/ isEnum(t) THEN t.name
              ELSE getModelName(t, modelMap, DefaultEmptyType)
      inner == IF t.isArray THEN base \o "[]" ELSE base
      whole == IF t.isRequired THEN inner ELSE inner \o " | null"
  IN [name |-> IF isReturn THEN "" ELSE field.name, type |-> whole]

\* A JavaScript object used as a map: its entries in insertion order.
createInterfacesMap(interfaces) ==
  [i \in 1..Len(interfaces) |->
     [key |-> interfaces[i].name, value |-> interfaces[i].implementors]]

createUnionsMap(unions) ==
  [i \in 1..Len(unions) |-> [key |-> unions[i].name, value |-> unions[i].types]]

keys(map) == [i \in 1..Len(map) |-> map[i].key]

get(map, key) == map[CHOOSE i \in 1..Len(map) : map[i].key = key].value

RECURSIVE uniq(_)
uniq(s) ==
  IF s = <<>> THEN <<>>
  ELSE LET rest == uniq(SubSeq(s, 1, Len(s) - 1))
           last == s[Len(s)]
       IN IF last \in Range(rest) THEN rest ELSE Append(rest, last)

getDistinctInputTypes(type, typeToInputTypeAssociation, inputTypesMap) ==
  uniq(typeToInputTypeAssociation[type.name])

renderDefaultResolvers(type, a, variableName) ==
  <<[kind |-> "defaultResolvers", name |-> variableName]>>

(***************************************************************************)
(* generate: the two indexes built at its top.                             *)
(***************************************************************************)
inputTypesMap(a) ==
  LET ins == SelectSeq(a.types, LAMBDA t : isInput(t.type))
  IN [n \in {ins[i].name : i \in 1..Len(ins)} |->
        ins[CHOOSE i \in 1..Len(ins) :
              ins[i].name = n /\ \A j \in 1..Len(ins) : ins[j].name = n => j <= i]]

\* Variant of inputArgNames that keeps only the first input-typed argument.
inputArgNames_firstOnly(field) ==
  LET ia == SelectSeq(field.arguments, LAMBDA arg : isInput(arg.type))
  IN [i \in 1..(IF Len(ia) > 0 THEN 1 ELSE 0) |-> ia[i].type.name]

\* The input type names one field contributes to the association.
inputArgNames(field) ==
  LET ia == SelectSeq(field.arguments, LAMBDA arg : isInput(arg.type))
  IN [i \in 1..Len(ia) |-> ia[i].type.name]

hasInputArgs(type) ==
  /\ isObject(type.type)
  /\ Len(SelectSeq(type.fields,
                   LAMBDA field :
                     Len(SelectSeq(field.arguments,
                                   LAMBDA arg : isInput(arg.type))) > 0)) > 0

typeToInputTypeAssociation(a) ==
  LET ts == SelectSeq(a.types, hasInputArgs)
  IN [n \in {ts[i].name : i \in 1..Len(ts)} |->
        LET t == ts[CHOOSE i \in 1..Len(ts) :
                      ts[i].name = n /\ \A j \in 1..Len(ts) : ts[j].name = n => j <= i]
        IN Flatten([i \in 1..Len(t.fields) |-> inputArgNames(t.fields[i])])]

\* Variant of hasPolymorphicObjects that forgets the unions.
hasPolymorphicObjects_interfacesOnly(interfacesMap, unionsMap) ==
  Len(keys(interfacesMap)) > 0

hasPolymorphicObjects(interfacesMap, unionsMap) ==
  Len(keys(interfacesMap)) > 0 \/ Len(keys(unionsMap)) > 0

renderHeader(a, polymorphic) ==
  [imports |-> IF polymorphic
               THEN <<"GraphQLResolveInfo", "GraphQLIsTypeOfFn">>
               ELSE <<"GraphQLResolveInfo">>]

(***************************************************************************)
(* Abstract types: __resolveType and the interface / union namespaces.     *)
(***************************************************************************)
\* Variant of renderStringConstant that leaves the quotes out.
renderStringConstant_unquoted(x) == x

renderStringConstant(x) == "\"" \o x \o "\""

renderTypeResolveTypeResolver(abstractType, a) ==
  LET gqlObjects == IF abstractType.kind = "interface"
                    THEN abstractType.implementors
                    ELSE abstractType.types
      modelNames == [i \in 1..Len(gqlObjects) |->
                       getModelName(gqlObjects[i], a.modelMap, DefaultEmptyType)]
      gqlObjectNameTypes == [i \in 1..Len(gqlObjects) |->
                               renderStringConstant(gqlObjects[i].name)]
  IN [value |-> union(modelNames),
      context |-> getContextName(a.context),
      info |-> "GraphQLResolveInfo",
      returns |-> resolverReturnType(union(gqlObjectNameTypes))]

\* Variant of renderInputArgInterface that skips single-argument fields.
renderInputArgInterface_offByOne(field, modelMap) ==
  IF Len(field.arguments) <= 1
  THEN [kind |-> "blank", name |-> "", members |-> <<>>]
  ELSE [kind |-> "args", name |-> "Args" \o upperFirst(field.name),
        members |-> [i \in 1..Len(field.arguments) |->
                       printFieldLikeType(field.arguments[i], modelMap, FALSE)]]

renderInputArgInterface(field, modelMap) ==
  IF Len(field.arguments) = 0
  THEN [kind |-> "blank", name |-> "", members |-> <<>>]
  ELSE [kind |-> "args", name |-> "Args" \o upperFirst(field.name),
        members |-> [i \in 1..Len(field.arguments) |->
                       printFieldLikeType(field.arguments[i], modelMap, FALSE)]]

renderInputArgInterfaces(type, modelMap) ==
  [i \in 1..Len(type.fields) |-> renderInputArgInterface(type.fields[i], modelMap)]

renderInterfaceNamespace(graphQLTypeObject, interfacesMap, unionsMap, a) ==
  [name |-> graphQLTypeObject.name \o "Resolvers",
   decls |-> renderInputArgInterfaces(graphQLTypeObject, a.modelMap)
             \o <<[kind |-> "Type", name |-> "Type",
                   members |-> <<[name |-> "__resolveType", optional |-> FALSE,
                                  contract |-> renderTypeResolveTypeResolver(
                                                 graphQLTypeObject, a)]>>]>>]

\* Variant of renderUnionNamespace with a mandatory __resolveType.
renderUnionNamespace_mandatory(graphQLTypeObject, a) ==
  [name |-> graphQLTypeObject.name \o "Resolvers",
   decls |-> <<[kind |-> "Type", name |-> "Type",
                members |-> <<[name |-> "__resolveType", optional |-> FALSE,
                               contract |-> renderTypeResolveTypeResolver(
                                              graphQLTypeObject, a)]>>]>>]

renderUnionNamespace(graphQLTypeObject, a) ==
  [name |-> graphQLTypeObject.name \o "Resolvers",
   decls |-> <<[kind |-> "Type", name |-> "Type",
                members |-> <<[name |-> "__resolveType", optional |-> TRUE,
                               contract |-> renderTypeResolveTypeResolver(
                                              graphQLTypeObject, a)]>>]>>]

(***************************************************************************)
(* Object types: __isTypeOf, input types, field resolvers, the namespace.  *)
(***************************************************************************)
RECURSIVE lastUnionContaining(_, _, _)
lastUnionContaining(unionsMap, typeName, possibleTypes) ==
  IF unionsMap = <<>> THEN possibleTypes
  ELSE LET unionTypes == Head(unionsMap).value
       IN lastUnionContaining(
            Tail(unionsMap), typeName,
            IF \E i \in 1..Len(unionTypes) : unionTypes[i].name = typeName
            THEN unionTypes ELSE possibleTypes)

renderIsTypeOfFunctionInterface(type, modelMap, interfacesMap, unionsMap, context) ==
  LET fromInterfaces ==
        IF ~isInterface(type.type)
        THEN Flatten([i \in 1..Len(type.implements) |->
                        get(interfacesMap, type.implements[i])])
        ELSE <<>>
      possibleTypes == lastUnionContaining(unionsMap, type.name, fromInterfaces)
  IN IF Len(possibleTypes) = 0 THEN <<>>
     ELSE <<[name |-> "__isTypeOf", optional |-> TRUE,
             possible |-> [i \in 1..Len(possibleTypes) |->
                             getModelName(possibleTypes[i], modelMap, DefaultEmptyType)],
             context |-> getContextName(context)]>>

renderInputTypeInterfaces(type, modelMap, assoc, inputs) ==
  IF type.name \notin DOMAIN assoc THEN <<>>
  ELSE LET names == getDistinctInputTypes(type, assoc, inputs)
       IN [i \in 1..Len(names) |->
             [kind |-> "input", name |-> inputs[names[i]].name,
              members |-> [j \in 1..Len(inputs[names[i]].fields) |->
                             printFieldLikeType(inputs[names[i]].fields[j],
                                                modelMap, FALSE)]]]

\* Variant of isSubscriptionType that looks at the kind, not the name.
isSubscriptionType_byKind(type) == type.type.kind = "subscription"

\* The test that selects the subscription contract.
isSubscriptionType(type) == type.name = "Subscription"

renderTypeResolver(field, type, modelMap, interfacesMap, unionsMap, context) ==
  LET parent ==
        IF isInterface(type.type)
        THEN LET implementingTypes == get(interfacesMap, type.name)
             IN [i \in 1..Len(implementingTypes) |->
                   getModelName(implementingTypes[i], modelMap, "undefined")]
        ELSE <<getModelName(type.type, modelMap, "undefined")>>
      params == [parent |-> parent,
                 args |-> IF Len(field.arguments) > 0
                          THEN "Args" \o upperFirst(field.name) ELSE "{}",
                 ctx |-> getContextName(context),
                 info |-> "GraphQLResolveInfo"]
      returnType == printFieldLikeType(field, modelMap, TRUE).type
      func == [params |-> params, returns |-> resolverReturnType(returnType)]
  IN IF isSubscriptionType(type)
     THEN [shape |-> "record",
           members |-> <<[name |-> "subscribe", optional |-> FALSE,
                          params |-> params,
                          returns |-> resolverReturnType(
                                        "AsyncIterator<" \o returnType \o ">")],
                         [name |-> "resolve", optional |-> TRUE,
                          params |-> params,
                          returns |-> resolverReturnType(returnType)]>>]
     ELSE [shape |-> "union",
           members |-> <<[name |-> "", optional |-> FALSE,
                          params |-> func.params, returns |-> func.returns],
                         [name |-> "fragment", optional |-> FALSE,
                          params |-> <<>>, returns |-> "string"],
                         [name |-> "resolver", optional |-> FALSE,
                          params |-> func.params, returns |-> func.returns]>>]

renderResolverFunctionInterfaces(type, modelMap, interfacesMap, unionsMap, context) ==
  [i \in 1..Len(type.fields) |->
     [kind |-> "alias", name |-> upperFirst(type.fields[i].name) \o "Resolver",
      contract |-> renderTypeResolver(type.fields[i], type, modelMap,
                                      interfacesMap, unionsMap, context)]]

renderResolverTypeInterface(type, modelMap, interfacesMap, unionsMap, context) ==
  <<[kind |-> "Type", name |-> "Type",
     members |-> [i \in 1..Len(type.fields) |->
                    [name |-> type.fields[i].name, optional |-> FALSE,
                     contract |-> renderTypeResolver(type.fields[i], type, modelMap,
                                                     interfacesMap, unionsMap, context)]],
     isTypeOf |-> renderIsTypeOfFunctionInterface(type, modelMap, interfacesMap,
                                                  unionsMap, context)]>>

\* Variant of renderNamespace that emits the resolver aliases before the
\* argument records.
renderNamespace_aliasesFirst(graphQLTypeObject, interfacesMap, unionsMap, assoc, inputs, a) ==
  [name |-> graphQLTypeObject.name \o "Resolvers",
   decls |->
     (IF a.defaultResolversEnabled
      THEN renderDefaultResolvers(graphQLTypeObject, a, "defaultResolvers")
      ELSE <<>>)
     \o renderInputTypeInterfaces(graphQLTypeObject, a.modelMap, assoc, inputs)
     \o renderResolverFunctionInterfaces(graphQLTypeObject, a.modelMap,
                                         interfacesMap, unionsMap, a.context)
     \o renderInputArgInterfaces(graphQLTypeObject, a.modelMap)
     \o renderResolverTypeInterface(graphQLTypeObject, a.modelMap,
                                    interfacesMap, unionsMap, a.context)]

renderNamespace(graphQLTypeObject, interfacesMap, unionsMap, assoc, inputs, a) ==
  [name |-> graphQLTypeObject.name \o "Resolvers",
   decls |->
     (IF a.defaultResolversEnabled
      THEN renderDefaultResolvers(graphQLTypeObject, a, "defaultResolvers")
      ELSE <<>>)
     \o renderInputTypeInterfaces(graphQLTypeObject, a.modelMap, assoc, inputs)
     \o renderInputArgInterfaces(graphQLTypeObject, a.modelMap)
     \o renderResolverFunctionInterfaces(graphQLTypeObject, a.modelMap,
                                         interfacesMap, unionsMap, a.context)
     \o renderResolverTypeInterface(graphQLTypeObject, a.modelMap,
                                    interfacesMap, unionsMap, a.context)]

renderObjectNamespaces(a, interfacesMap, unionsMap, assoc, inputs) ==
  LET objs == SelectSeq(a.types, LAMBDA t : isObject(t.type))
  IN [i \in 1..Len(objs) |->
        renderNamespace(objs[i], interfacesMap, unionsMap, assoc, inputs, a)]

renderInterfaceNamespaces(a, interfacesMap, unionsMap) ==
  [i \in 1..Len(a.interfaces) |->
     renderInterfaceNamespace(a.interfaces[i], interfacesMap, unionsMap, a)]

renderUnionNamespaces(a) ==
  [i \in 1..Len(a.unions) |-> renderUnionNamespace(a.unions[i], a)]

renderNamespaces(a, interfacesMap, unionsMap, assoc, inputs) ==
  [objects |-> renderObjectNamespaces(a, interfacesMap, unionsMap, assoc, inputs),
   interfaces |-> renderInterfaceNamespaces(a, interfacesMap, unionsMap),
   unions |-> renderUnionNamespaces(a)]

\* Variant of renderResolvers without the isObject filter.
renderResolvers_unfiltered(a) ==
  [i \in 1..Len(a.types) |->
     [name |-> a.types[i].name, optional |-> FALSE,
      type |-> a.types[i].name \o "Resolvers.Type"]]
  \o [i \in 1..Len(a.interfaces) |->
        [name |-> a.interfaces[i].name, optional |-> TRUE,
         type |-> a.interfaces[i].name \o "Resolvers.Type"]]
  \o [i \in 1..Len(a.unions) |->
        [name |-> a.unions[i].name, optional |-> TRUE,
         type |-> a.unions[i].name \o "Resolvers.Type"]]

renderResolvers(a) ==
  LET objs == SelectSeq(a.types, LAMBDA obj : isObject(obj.type))
  IN [i \in 1..Len(objs) |->
        [name |-> objs[i].name, optional |-> FALSE,
         type |-> objs[i].name \o "Resolvers.Type"]]
     \o [i \in 1..Len(a.interfaces) |->
           [name |-> a.interfaces[i].name, optional |-> TRUE,
            type |-> a.interfaces[i].name \o "Resolvers.Type"]]
     \o [i \in 1..Len(a.unions) |->
           [name |-> a.unions[i].name, optional |-> TRUE,
            type |-> a.unions[i].name \o "Resolvers.Type"]]

generate(a) ==
  LET inputs == inputTypesMap(a)
      assoc == typeToInputTypeAssociation(a)
      interfacesMap == createInterfacesMap(a.interfaces)
      unionsMap == createUnionsMap(a.unions)
  IN [header |-> renderHeader(a, hasPolymorphicObjects(interfacesMap, unionsMap)),
      namespaces |-> renderNamespaces(a, interfacesMap, unionsMap, assoc, inputs),
      resolvers |-> renderResolvers(a)]

(***************************************************************************)
(* format: prettier either returns the formatted text or throws.           *)
(***************************************************************************)
NoCode ==
  [header |-> [imports |-> <<>>],
   namespaces |-> [objects |-> <<>>, interfaces |-> <<>>, unions |-> <<>>],
   resolvers |-> <<>>]

prettierFormat(text) == [code |-> text, formatted |-> TRUE]

Unformatted(text) == [code |-> text, formatted |-> FALSE]

SyntaxErrorMessage ==
  "There is a syntax error in generated code, unformatted code printed"

\* What one call of format does, given whether prettier.format throws: the
\* value returned, the lines written to the console, and whether an error
\* leaves format.
\* Variant of format whose catch block lets the error through.
format_rethrow(text, prettierThrows) ==
  IF ~prettierThrows
  THEN [returned |-> prettierFormat(text), logged |-> <<>>, thrown |-> FALSE]
  ELSE [returned |-> Unformatted(NoCode), logged |-> <<SyntaxErrorMessage>>,
        thrown |-> TRUE]

format(text, prettierThrows) ==
  IF ~prettierThrows
  THEN [returned |-> prettierFormat(text), logged |-> <<>>, thrown |-> FALSE]
  ELSE [returned |-> Unformatted(text), logged |-> <<SyntaxErrorMessage>>,
        thrown |-> FALSE]

NoResult == Unformatted(NoCode)

Init ==
  /\ args \in Schemas
  /\ pc = "start"
  /\ code = NoCode
  /\ formatter = "idle"
  /\ result = NoResult
  /\ log = <<>>
  /\ raised = FALSE

\* generate(args): the whole generation run.
Generate ==
  /\ pc = "start"
  /\ code' = generate(args)
  /\ pc' = "generated"
  /\ UNCHANGED <<args, formatter, result, log, raised>>

\* format(code) when prettier.format returns.
FormatOk ==
  /\ pc = "generated"
  /\ LET r == format(code, FALSE)
     IN /\ result' = r.returned
        /\ log' = log \o r.logged
        /\ raised' = r.thrown
  /\ formatter' = "returned"
  /\ pc' = "done"
  /\ UNCHANGED <<args, code>>

\* format(code) when prettier.format throws.
FormatThrows ==
  /\ pc = "generated"
  /\ LET r == format(code, TRUE)
     IN /\ result' = r.returned
        /\ log' = log \o r.logged
        /\ raised' = r.thrown
  /\ formatter' = "threw"
  /\ pc' = "done"
  /\ UNCHANGED <<args, code>>

Next == Generate \/ FormatOk \/ FormatThrows

Spec == Init /\ [][Next]_vars

(***************************************************************************)
(* Vocabulary of the properties: the schema's types and the declaration    *)
(* groups found in the generated code.                                     *)
(***************************************************************************)
Generated == pc # "start"

ObjectTypes == SelectSeq(args.types, LAMBDA t : isObject(t.type))

Groups == code.namespaces.objects \o code.namespaces.interfaces \o code.namespaces.unions

GroupsNamed(n) == SelectSeq(Groups, LAMBDA g : g.name = n \o "Resolvers")

OfKind(g, kind) == SelectSeq(g.decls, LAMBDA d : d.kind = kind)

Positions(g, kind) == {i \in 1..Len(g.decls) : g.decls[i].kind = kind}

EntriesNamed(n) == SelectSeq(code.resolvers, LAMBDA e : e.name = n)

\* The argument-record slots of a group: one per field, blank or a record.
ArgSlots(g) == SelectSeq(g.decls, LAMBDA d : d.kind \in {"args", "blank"})

\* The argument types named by the signatures of a resolver contract.
ArgsNamedBy(contract) ==
  {contract.members[i].params.args :
     i \in {j \in 1..Len(contract.members) : contract.members[j].params # <<>>}}

InputNamesOf(t) ==
  UNION { {arg.type.name : arg \in {x \in Range(f.arguments) : isInput(x.type)}} :
            f \in Range(t.fields) }

BackingType(t) ==
  IF t.name \in DOMAIN args.modelMap THEN args.modelMap[t.name] ELSE DefaultEmptyType

(***************************************************************************)
(* C1: the final Resolvers declaration has exactly one entry per object    *)
(* type, named by the type, bound to <TypeName>Resolvers.Type and          *)
(* required; exactly one optional entry per interface and per union; and   *)
(* no entry for an input, enum or scalar type.                             *)
(***************************************************************************)
C1_ResolversCoverage ==
  Generated =>
    /\ \A t \in Range(args.types) :
         IF isObject(t.type)
         THEN EntriesNamed(t.name) =
                <<[name |-> t.name, optional |-> FALSE,
                   type |-> t.name \o "Resolvers.Type"]>>
         ELSE EntriesNamed(t.name) = <<>>
    /\ \A t \in Range(args.interfaces) \cup Range(args.unions) :
         EntriesNamed(t.name) =
           <<[name |-> t.name, optional |-> TRUE,
              type |-> t.name \o "Resolvers.Type"]>>
    /\ Len(code.resolvers) =
         Len(ObjectTypes) + Len(args.interfaces) + Len(args.unions)

C1_Witness ==
  /\ pc = "generated"
  /\ Len(ObjectTypes) = 2 /\ Len(args.interfaces) = 1 /\ Len(args.unions) = 2
  /\ \E t \in Range(args.types) : isInput(t.type)
  /\ \E t \in Range(args.types) : isEnum(t.type)
  /\ Len(code.resolvers) = 5

(***************************************************************************)
(* C2: every field of the object type named Subscription has the record    *)
(* contract {subscribe, resolve?}, subscribe returning an AsyncIterator of *)
(* the result type; every field of every other object type has the choice  *)
(* between a plain function and the delegated {fragment, resolver} record.  *)
(***************************************************************************)
IsSubscriptionShape(c) ==
  /\ c.shape = "record"
  /\ Len(c.members) = 2
  /\ c.members[1].name = "subscribe" /\ ~c.members[1].optional
  /\ c.members[2].name = "resolve" /\ c.members[2].optional
  /\ c.members[1].returns.type = "AsyncIterator<" \o c.members[2].returns.type \o ">"
  /\ c.members[1].params = c.members[2].params

IsPlainOrDelegatedShape(c) ==
  /\ c.shape = "union"
  /\ [i \in 1..Len(c.members) |-> c.members[i].name] = <<"", "fragment", "resolver">>
  /\ c.members[3].params = c.members[1].params
  /\ c.members[3].returns = c.members[1].returns

C2_SubscriptionShape ==
  Generated =>
    \A t \in Range(ObjectTypes) :
      /\ Len(GroupsNamed(t.name)) = 1
      /\ LET g == GroupsNamed(t.name)[1]
             aliases == OfKind(g, "alias")
             members == OfKind(g, "Type")[1].members
         IN /\ Len(aliases) = Len(t.fields) /\ Len(members) = Len(t.fields)
            /\ \A i \in 1..Len(t.fields) :
                 /\ members[i].name = t.fields[i].name
                 /\ \A c \in {aliases[i].contract, members[i].contract} :
                      IF t.name = "Subscription"
                      THEN IsSubscriptionShape(c) /\ ~IsPlainOrDelegatedShape(c)
                      ELSE IsPlainOrDelegatedShape(c) /\ ~IsSubscriptionShape(c)

C2_Witness ==
  /\ pc = "generated"
  /\ \E t \in Range(ObjectTypes) : t.name = "Subscription" /\ Len(t.fields) = 2
  /\ \E t \in Range(ObjectTypes) : t.name # "Subscription" /\ Len(t.fields) = 2
  /\ \E g \in Range(code.namespaces.objects) :
       \E d \in Range(g.decls) : d.kind = "alias" /\ d.contract.shape = "record"

(***************************************************************************)
(* C3: an interface's group has a Type whose only member is a mandatory    *)
(* __resolveType, and besides it only the argument records of its own      *)
(* fields; a union's group is just a Type whose only member is an optional *)
(* __resolveType.                                                          *)
(***************************************************************************)
C3_AbstractMandatoriness ==
  Generated =>
    /\ \A t \in Range(args.interfaces) :
         /\ Len(GroupsNamed(t.name)) = 1
         /\ LET g == GroupsNamed(t.name)[1]
                n == Len(g.decls)
            IN /\ n = Len(t.fields) + 1
               /\ g.decls[n].kind = "Type"
               /\ Len(g.decls[n].members) = 1
               /\ g.decls[n].members[1].name = "__resolveType"
               /\ ~g.decls[n].members[1].optional
               /\ \A i \in 1..(n - 1) :
                    \/ g.decls[i].kind = "blank"
                    \/ /\ g.decls[i].kind = "args"
                       /\ g.decls[i].name = "Args" \o upperFirst(t.fields[i].name)
    /\ \A t \in Range(args.unions) :
         /\ Len(GroupsNamed(t.name)) = 1
         /\ LET g == GroupsNamed(t.name)[1]
            IN /\ Len(g.decls) = 1
               /\ g.decls[1].kind = "Type"
               /\ Len(g.decls[1].members) = 1
               /\ g.decls[1].members[1].name = "__resolveType"
               /\ g.decls[1].members[1].optional

C3_Witness ==
  /\ pc = "generated"
  /\ Len(args.unions) > 0
  /\ \E t \in Range(args.interfaces) :
       /\ \E f \in Range(t.fields) : Len(f.arguments) > 0
       /\ \E f \in Range(t.fields) : Len(f.arguments) = 0
       /\ Len(t.implementors) > 0

C5_InputReachability ==
  Generated =>
    \A t \in Range(ObjectTypes) :
      LET inputs == OfKind(GroupsNamed(t.name)[1], "input")
      IN /\ {d.name : d \in Range(inputs)} = InputNamesOf(t)
         /\ Len(inputs) = Cardinality(InputNamesOf(t))
         /\ t.name \in DOMAIN typeToInputTypeAssociation(args) <=> InputNamesOf(t) # {}
         /\ t.name \in DOMAIN typeToInputTypeAssociation(args) =>
              Range(typeToInputTypeAssociation(args)[t.name]) = InputNamesOf(t)

C5_Witness ==
  /\ pc = "generated"
  /\ \E t \in Range(ObjectTypes) :
       /\ Len(t.fields) = 2
       /\ InputNamesOf(t) = {"UserInput"}
       /\ typeToInputTypeAssociation(args)[t.name] = <<"UserInput", "UserInput">>
       /\ Len(OfKind(GroupsNamed(t.name)[1], "input")) = 1
  /\ \E t \in Range(ObjectTypes) : InputNamesOf(t) = {}

(***************************************************************************)
(* C6: __resolveType of an interface or union with implementor / member    *)
(* list L takes the union, in L's order, of the backing types of L's       *)
(* elements (the fallback marker for an unbound one) and returns the union  *)
(* of the quoted names of L's elements; with L empty generation completes   *)
(* and both unions are empty.                                               *)
(***************************************************************************)
AbstractList(t) == IF t.kind = "interface" THEN t.implementors ELSE t.types

C6_ResolveTypeSignature ==
  Generated =>
    \A t \in Range(args.interfaces) \cup Range(args.unions) :
      LET L == AbstractList(t)
          c == OfKind(GroupsNamed(t.name)[1], "Type")[1].members[1].contract
      IN /\ c.value.union = [i \in 1..Len(L) |-> BackingType(L[i])]
         /\ c.returns.type.union = [i \in 1..Len(L) |-> "\"" \o L[i].name \o "\""]
         /\ c.returns.orPromise

C6_Witness ==
  /\ pc = "generated"
  /\ \E t \in Range(args.unions) :
       /\ [i \in 1..Len(t.types) |-> t.types[i].name] = <<"Post", "User">>
       /\ OfKind(GroupsNamed(t.name)[1], "Type")[1].members[1].contract.value.union
            = <<DefaultEmptyType, "UserModel">>
  /\ \E t \in Range(args.unions) :
       /\ t.types = <<>>
       /\ OfKind(GroupsNamed(t.name)[1], "Type")[1].members[1].contract.value.union = <<>>

(***************************************************************************)
(* C7: when prettier throws, format logs a diagnostic, returns exactly the *)
(* code it was given, unformatted, and lets no error out; when prettier    *)
(* returns, format returns prettier's result.                              *)
(***************************************************************************)
C7_FormatKeepsText ==
  pc = "done" =>
    /\ formatter = "threw" =>
         /\ result = [code |-> code, formatted |-> FALSE]
         /\ Len(log) = 1
         /\ ~raised
    /\ formatter = "returned" =>
         /\ result = prettierFormat(code)
         /\ log = <<>>
         /\ ~raised

C7_Witness ==
  /\ pc = "done"
  /\ formatter = "threw"
  /\ result.code = code
  /\ code.resolvers # <<>>

(***************************************************************************)
(* C8: for an object type that implements an interface or belongs to a     *)
(* union, __isTypeOf takes the union of the backing types of every         *)
(* implementor of every interface it implements together with every member *)
(* of every union that contains it.                                        *)
(***************************************************************************)
PossibleTypesOf(t) ==
  UNION ( { Range(i.implementors) :
              i \in {x \in Range(args.interfaces) : x.name \in Range(t.implements)} }
          \cup
          { Range(u.types) :
              u \in {x \in Range(args.unions) :
                       \E m \in Range(x.types) : m.name = t.name} } )

C8_IsTypeOfAllPossibleTypes ==
  Generated =>
    \A t \in Range(ObjectTypes) :
      PossibleTypesOf(t) # {} =>
        LET member == OfKind(GroupsNamed(t.name)[1], "Type")[1].isTypeOf
        IN /\ Len(member) = 1
           /\ member[1].name = "__isTypeOf"
           /\ member[1].optional
           /\ Range(member[1].possible) = {BackingType(p) : p \in PossibleTypesOf(t)}

(***************************************************************************)
(* C9: an object type's group is emitted in the order default resolvers    *)
(* (only when enabled), input types, argument records, per-field resolver  *)
(* aliases, Type; so every argument record an alias or Type names is       *)
(* declared earlier in the group.                                          *)
(***************************************************************************)
Rank(kind) ==
  CASE kind = "defaultResolvers" -> 0
    [] kind = "input" -> 1
    [] kind = "args" -> 2
    [] kind = "blank" -> 2
    [] kind = "alias" -> 3
    [] kind = "Type" -> 4

ContractsOf(d) ==
  IF d.kind = "alias" THEN {d.contract}
  ELSE IF d.kind = "Type" THEN {d.members[i].contract : i \in 1..Len(d.members)}
  ELSE {}

C9_GroupOrder ==
  Generated =>
    \A t \in Range(ObjectTypes) :
      LET g == GroupsNamed(t.name)[1]
          d == g.decls
      IN /\ \A i, j \in 1..Len(d) : i < j => Rank(d[i].kind) <= Rank(d[j].kind)
         /\ Len(OfKind(g, "defaultResolvers")) =
              (IF args.defaultResolversEnabled THEN 1 ELSE 0)
         /\ Len(OfKind(g, "alias")) = Len(t.fields)
         /\ Positions(g, "Type") = {Len(d)}
         /\ \A k \in 1..Len(d) :
              \A c \in ContractsOf(d[k]) :
                \A n \in ArgsNamedBy(c) \ {"{}"} :
                  \E j \in 1..(k - 1) : d[j].kind = "args" /\ d[j].name = n

C9_Witness ==
  /\ pc = "generated"
  /\ args.defaultResolversEnabled
  /\ \E g \in Range(code.namespaces.objects) :
       /\ [i \in 1..Len(g.decls) |-> g.decls[i].kind] =
            <<"defaultResolvers", "input", "input", "args", "args",
              "alias", "alias", "Type">>

(***************************************************************************)
(* C10: whenever some object type's Type has an __isTypeOf member, the     *)
(* header imports GraphQLIsTypeOfFn; the header imports it exactly when    *)
(* the schema has at least one interface or union.                         *)
(***************************************************************************)
SomeIsTypeOf ==
  \E g \in Range(code.namespaces.objects) :
    \E d \in Range(g.decls) : d.kind = "Type" /\ d.isTypeOf # <<>>

C10_IsTypeOfImported ==
  Generated =>
    /\ SomeIsTypeOf => "GraphQLIsTypeOfFn" \in Range(code.header.imports)
    /\ "GraphQLIsTypeOfFn" \in Range(code.header.imports)
         <=> (Len(args.interfaces) > 0 \/ Len(args.unions) > 0)
    /\ "GraphQLResolveInfo" \in Range(code.header.imports)

C10_Witness ==
  /\ pc = "generated"
  /\ SomeIsTypeOf
  /\ args.interfaces = <<>>
  /\ "GraphQLIsTypeOfFn" \in Range(code.header.imports)
====
